---- MODULE Spec2Model ----
(***************************************************************************)
(* Build module of the Virus Sandbox: the view model (BuildViewModel) that *)
(* spends EP and installs / removes genes through the virus builder.       *)
(*                                                                         *)
(* The view model and the application controller are translated from      *)
(* src/ui_builder.py and src/main.py.  VirusBuilder (simulation.py) and    *)
(* GameState (game_state.py) are imported by those files but are not part  *)
(* of the sources at hand; their operations are modelled from the          *)
(* specification (section 4.2 and 4.3) and carry the prefix VirusBuilder_  *)
(* or GameState_.                                                          *)
(*                                                                         *)
(* Spec and GameSpec call the view model directly.  UiSpec is one game on  *)
(* the widgets of BuildModule (deck cards, installed panel, blueprint      *)
(* view, starter combo), driven by clicks; SessionSpec is a session that   *)
(* starts several games on the one BuildModule.                            *)
(***************************************************************************)
EXTENDS Integers, Sequences, FiniteSets, TLC

(***************************************************************************)
(* Reference data: the gene database handed to the session.                *)
(* requires is an ordered list of gene names, as in the schema.            *)
(*   CapEnz <- Booster <- Turbo   is a chain of prerequisites,             *)
(*   PolA and PolB are the two polymerase genes, PolB requires CapEnz,     *)
(*   Shield stands alone.                                                  *)
(* Probabilities are in percent.  CapEnz adds the rule Uncoat and Booster  *)
(* raises it; both polymerases add Replicate, which Turbo raises although  *)
(* it requires neither; PolB and Shield both add a rule named Export.      *)
(***************************************************************************)
Rule(name, probability, inputs, outputs) ==
    [name |-> name, probability |-> probability,
     inputs |-> inputs, outputs |-> outputs]

AddTransition(rule) == [type |-> "add_transition", rule |-> rule]

ModifyTransition(rule_name, delta) ==
    [type |-> "modify_transition", rule_name |-> rule_name,
     probability_delta |-> delta]

Database ==
    [ CapEnz  |-> [name |-> "CapEnz",  cost |-> 15, remove_cost |-> 10,
                   is_polymerase |-> FALSE, requires |-> << >>,
                   effects |-> <<AddTransition(Rule("Uncoat", 90,
                                    <<<<"RNA-in", 1>>>>, <<<<"RNA-out", 1>>>>))>>],
      Booster |-> [name |-> "Booster", cost |-> 25, remove_cost |-> 5,
                   is_polymerase |-> FALSE, requires |-> <<"CapEnz">>,
                   effects |-> <<ModifyTransition("Uncoat", 5)>>],
      Turbo   |-> [name |-> "Turbo",   cost |-> 30, remove_cost |-> 20,
                   is_polymerase |-> FALSE, requires |-> <<"Booster">>,
                   effects |-> <<ModifyTransition("Replicate", 10)>>],
      PolA    |-> [name |-> "PolA",    cost |-> 40, remove_cost |-> 10,
                   is_polymerase |-> TRUE,  requires |-> << >>,
                   effects |-> <<AddTransition(Rule("Replicate", 50,
                                    <<<<"RNA-out", 1>>>>, <<<<"RNA-out", 2>>>>))>>],
      PolB    |-> [name |-> "PolB",    cost |-> 45, remove_cost |-> 15,
                   is_polymerase |-> TRUE,  requires |-> <<"CapEnz">>,
                   effects |-> <<AddTransition(Rule("Replicate", 40,
                                    <<<<"RNA-out", 1>>>>, <<<<"DNA-x", 1>>>>)),
                                 AddTransition(Rule("Export", 20,
                                    <<<<"DNA-x", 1>>>>, <<<<"Virion-X", 1>>>>))>>],
      Shield  |-> [name |-> "Shield",  cost |-> 20, remove_cost |-> 10,
                   is_polymerase |-> FALSE, requires |-> << >>,
                   effects |-> <<AddTransition(Rule("Export", 30,
                                    <<<<"RNA-out", 1>>, <<"Protein-S", 2>>>>,
                                    <<<<"Virion-Y", 1>>>>))>>] ]

\* the entities of the database; DNA-x is used by a rule but is not in it
EntityDatabase ==
    ("Virion-X"  :> [entity_class |-> "Virion",  location |-> "extracellular"]) @@
    ("Virion-Y"  :> [entity_class |-> "Virion",  location |-> "extracellular"]) @@
    ("RNA-in"    :> [entity_class |-> "RNA",     location |-> "endosome"]) @@
    ("RNA-out"   :> [entity_class |-> "RNA",     location |-> "cytoplasm"]) @@
    ("Protein-S" :> [entity_class |-> "Protein", location |-> "cytoplasm"])

\* database_manager.get_all_genes(): the names of all genes of the database
all_genes == DOMAIN Database

\* a gene name that is not in the database (an unknown gene may be requested)
UnknownGenes == {"Ghost"}

\* every gene name a caller may pass to install_gene / remove_gene
GeneArgs == all_genes \cup UnknownGenes

\* the deck holds at most this many genes (10 in main.py, scaled down)
MaxDeckSize == 3

Range(s) == {s[i] : i \in DOMAIN s}

Min(a, b) == IF a <= b THEN a ELSE b

VARIABLES
    ep,               \* GameState.ep: the spendable point balance
    deck,             \* GameState.deck: list of gene names offered to the player
    selected_genes,   \* VirusBuilder.selected_genes: ordered list of gene dicts
    last,             \* the last view-model call: operation, argument, result,
                      \* and the balance and installed names it started from
    selected_starter_entity,  \* GameState: the selected starter entity
    achieved_milestones,      \* GameState: ids of the milestones achieved
    rewards_granted,          \* per milestone, how often its reward was credited
    emitted           \* the signals the last view-model call emitted, in order,
                      \* each with the balance and installed names at its emit

\* the state of the view model and of the game state behind it
core == <<ep, deck, selected_genes, last,
          selected_starter_entity, achieved_milestones, rewards_granted,
          emitted>>

\* the milestone bookkeeping of the game state
milestone_state == <<achieved_milestones, rewards_granted>>

\* the game state that install_gene and remove_gene do not touch
game_rest == <<selected_starter_entity, achieved_milestones, rewards_granted>>

(***************************************************************************)
(* GameState (modelled from the specification, section 4.3 / 3)            *)
(***************************************************************************)
GameState_get_gene_cost(gene_name) ==
    IF gene_name \in all_genes THEN Database[gene_name].cost ELSE 0

GameState_get_remove_cost(gene_name) ==
    IF gene_name \in all_genes THEN Database[gene_name].remove_cost ELSE 0

(***************************************************************************)
(* VirusBuilder (modelled from the specification, section 4.2).  The       *)
(* operations take the gene list as a parameter so that the constructor of *)
(* the view model can replay them over the deck.                           *)
(***************************************************************************)
NamesOf(sel) == [i \in DOMAIN sel |-> sel[i].name]

VirusBuilder_has_polymerase_gene(sel) ==
    \E i \in DOMAIN sel : sel[i].is_polymerase

\* the builder's own legality check: existence, prerequisites, polymerase cap
VirusBuilder_can_add_gene(sel, gene_name) ==
    IF gene_name \notin all_genes
        THEN <<FALSE, "unknown_gene">>
    ELSE IF ~(Range(Database[gene_name].requires) \subseteq Range(NamesOf(sel)))
        THEN <<FALSE, "missing_prerequisites">>
    ELSE IF Database[gene_name].is_polymerase /\ VirusBuilder_has_polymerase_gene(sel)
        THEN <<FALSE, "polymerase_limit">>
    ELSE <<TRUE, "">>

\* appends the gene at the end of the installed list
VirusBuilder_add_gene(sel, gene_name) ==
    IF gene_name \in all_genes THEN Append(sel, Database[gene_name]) ELSE sel

\* one round of the dependent search: installed genes requiring a member of S
DirectDependents(sel, S) ==
    {sel[i].name : i \in {j \in DOMAIN sel : Range(sel[j].requires) \cap S # {}}}

RECURSIVE DependentClosure(_, _)
DependentClosure(sel, S) ==
    LET T == S \cup DirectDependents(sel, S)
    IN  IF T = S THEN S ELSE DependentClosure(sel, T)

\* a variant that drops only the direct dependents of the gene
VirusBuilder_remove_gene_DirectOnly(sel, gene_name) ==
    LET closure == {gene_name} \cup DirectDependents(sel, {gene_name})
    IN  SelectSeq(sel, LAMBDA g : g.name \notin closure)

\* removes the gene together with its transitive dependent closure
VirusBuilder_remove_gene(sel, gene_name) ==
    LET closure == DependentClosure(sel, {gene_name})
    IN  SelectSeq(sel, LAMBDA g : g.name \notin closure)

(***************************************************************************)
(* BuildViewModel (src/ui_builder.py)                                      *)
(***************************************************************************)
\* property installed_genes
installed_genes == NamesOf(selected_genes)

\* __init__: one pass over the deck, adding each gene the builder accepts
RECURSIVE BuildViewModel_init(_, _)
BuildViewModel_init(sel, rest) ==
    IF rest = << >> THEN sel
    ELSE LET gene_name == Head(rest)
         IN  BuildViewModel_init(
                 IF VirusBuilder_can_add_gene(sel, gene_name)[1]
                     THEN VirusBuilder_add_gene(sel, gene_name)
                     ELSE sel,
                 Tail(rest))

\* variants of can_install_gene with one of its checks left out
can_install_gene_NoCostCheck(gene_name) ==
    IF gene_name \in Range(installed_genes)
        THEN <<FALSE, "already_installed">>
    ELSE VirusBuilder_can_add_gene(selected_genes, gene_name)

can_install_gene_NoBuilderCheck(gene_name) ==
    IF gene_name \in Range(installed_genes)
        THEN <<FALSE, "already_installed">>
    ELSE IF ep < GameState_get_gene_cost(gene_name)
        THEN <<FALSE, "insufficient_ep">>
    ELSE <<TRUE, "">>

can_install_gene_NoInstalledCheck(gene_name) ==
    IF ~VirusBuilder_can_add_gene(selected_genes, gene_name)[1]
        THEN <<FALSE, VirusBuilder_can_add_gene(selected_genes, gene_name)[2]>>
    ELSE IF ep < GameState_get_gene_cost(gene_name)
        THEN <<FALSE, "insufficient_ep">>
    ELSE <<TRUE, "">>

\* a variant that looks at the balance before asking the builder
can_install_gene_CostFirst(gene_name) ==
    IF gene_name \in Range(installed_genes)
        THEN <<FALSE, "already_installed">>
    ELSE IF ep < GameState_get_gene_cost(gene_name)
        THEN <<FALSE, "insufficient_ep">>
    ELSE VirusBuilder_can_add_gene(selected_genes, gene_name)

can_install_gene(gene_name) ==
    IF gene_name \in Range(installed_genes)
        THEN <<FALSE, "already_installed">>
    ELSE IF ~VirusBuilder_can_add_gene(selected_genes, gene_name)[1]
        THEN <<FALSE, VirusBuilder_can_add_gene(selected_genes, gene_name)[2]>>
    ELSE IF ep < GameState_get_gene_cost(gene_name)
        THEN <<FALSE, "insufficient_ep">>
    ELSE <<TRUE, "">>

\* reason is the reason of the return statement that ended the call; remove_gene
\* returns a bare False, its two early returns are told apart by the names
\* not_installed and insufficient_ep
\* again is set when the call is an evaluation that follows an evaluation;
\* undo is set when the call is a remove of the gene that the call before it
\* installed: the balance and the installed names that install started from
Call(op, gene_name, ok, reason) ==
    [op |-> op, gene |-> gene_name, ok |-> ok, reason |-> reason,
     ep0 |-> ep, installed0 |-> installed_genes,
     achieved0 |-> achieved_milestones,
     starter0 |-> selected_starter_entity,
     again |-> (op = "evaluate" /\ last.op = "evaluate"),
     undo |-> IF op = "remove" /\ last.op = "install" /\ last.ok
                    /\ last.gene = gene_name
                  THEN <<last.ep0, last.installed0>>
                  ELSE << >>]

\* Signal.emit(), one after the other: the connected slots run inside emit()
\* and see the balance and the installed names as they are at that moment
Emit(signals) ==
    [i \in DOMAIN signals |->
        [signal |-> signals[i], ep |-> ep', installed |-> installed_genes']]

\* the signals install_gene and remove_gene emit
ChangeSignals == <<"ep_changed", "installed_changed", "blueprint_changed">>

\* a variant that spends the EP before looking at the result of the check
install_gene_SpendFirst(gene_name) ==
    IF ~can_install_gene(gene_name)[1]
    THEN /\ ep' = ep - GameState_get_gene_cost(gene_name)
         /\ last' = Call("install", gene_name, FALSE, can_install_gene(gene_name)[2])
         /\ emitted' = << >>
         /\ UNCHANGED <<deck, selected_genes, game_rest>>
    ELSE /\ ep' = ep - GameState_get_gene_cost(gene_name)
         /\ selected_genes' = VirusBuilder_add_gene(selected_genes, gene_name)
         /\ last' = Call("install", gene_name, TRUE, "")
         /\ emitted' = Emit(ChangeSignals)
         /\ UNCHANGED <<deck, game_rest>>

\* a variant that charges the remove cost for an install
install_gene_WrongCost(gene_name) ==
    IF ~can_install_gene(gene_name)[1]
    THEN /\ last' = Call("install", gene_name, FALSE, can_install_gene(gene_name)[2])
         /\ emitted' = << >>
         /\ UNCHANGED <<ep, deck, selected_genes, game_rest>>
    ELSE /\ ep' = ep - GameState_get_remove_cost(gene_name)
         /\ selected_genes' = VirusBuilder_add_gene(selected_genes, gene_name)
         /\ last' = Call("install", gene_name, TRUE, "")
         /\ emitted' = Emit(ChangeSignals)
         /\ UNCHANGED <<deck, game_rest>>

\* a variant that emits ep_changed as soon as the EP are spent
install_gene_EmitEarly(gene_name) ==
    IF ~can_install_gene(gene_name)[1]
    THEN /\ last' = Call("install", gene_name, FALSE, can_install_gene(gene_name)[2])
         /\ emitted' = << >>
         /\ UNCHANGED <<ep, deck, selected_genes, game_rest>>
    ELSE /\ ep' = ep - GameState_get_gene_cost(gene_name)
         /\ selected_genes' = VirusBuilder_add_gene(selected_genes, gene_name)
         /\ last' = Call("install", gene_name, TRUE, "")
         /\ emitted' = <<[signal |-> "ep_changed", ep |-> ep',
                          installed |-> installed_genes]>>
                            \o Tail(Emit(ChangeSignals))
         /\ UNCHANGED <<deck, game_rest>>

install_gene(gene_name) ==
    IF ~can_install_gene(gene_name)[1]
    THEN /\ last' = Call("install", gene_name, FALSE, can_install_gene(gene_name)[2])
         /\ emitted' = << >>
         /\ UNCHANGED <<ep, deck, selected_genes, game_rest>>
    ELSE /\ ep' = ep - GameState_get_gene_cost(gene_name)
         /\ selected_genes' = VirusBuilder_add_gene(selected_genes, gene_name)
         /\ last' = Call("install", gene_name, TRUE, "")
         /\ emitted' = Emit(ChangeSignals)
         /\ UNCHANGED <<deck, game_rest>>

\* the sum of the remove costs of a set of genes
RECURSIVE SumRemoveCost(_)
SumRemoveCost(S) ==
    IF S = {} THEN 0
    ELSE LET g == CHOOSE x \in S : TRUE
         IN  GameState_get_remove_cost(g) + SumRemoveCost(S \ {g})

\* a variant that charges the remove cost of every gene that goes
remove_gene_ChargeAll(gene_name) ==
    IF gene_name \notin Range(installed_genes)
    THEN /\ last' = Call("remove", gene_name, FALSE, "not_installed")
         /\ emitted' = << >>
         /\ UNCHANGED <<ep, deck, selected_genes, game_rest>>
    ELSE IF ep < GameState_get_remove_cost(gene_name)
    THEN /\ last' = Call("remove", gene_name, FALSE, "insufficient_ep")
         /\ emitted' = << >>
         /\ UNCHANGED <<ep, deck, selected_genes, game_rest>>
    ELSE /\ ep' = ep - SumRemoveCost(DependentClosure(selected_genes, {gene_name}))
         /\ selected_genes' = VirusBuilder_remove_gene(selected_genes, gene_name)
         /\ last' = Call("remove", gene_name, TRUE, "")
         /\ emitted' = Emit(ChangeSignals)
         /\ UNCHANGED <<deck, game_rest>>

\* a variant without the check of the balance
remove_gene_NoCostCheck(gene_name) ==
    IF gene_name \notin Range(installed_genes)
    THEN /\ last' = Call("remove", gene_name, FALSE, "not_installed")
         /\ emitted' = << >>
         /\ UNCHANGED <<ep, deck, selected_genes, game_rest>>
    ELSE /\ ep' = ep - GameState_get_remove_cost(gene_name)
         /\ selected_genes' = VirusBuilder_remove_gene(selected_genes, gene_name)
         /\ last' = Call("remove", gene_name, TRUE, "")
         /\ emitted' = Emit(ChangeSignals)
         /\ UNCHANGED <<deck, game_rest>>

\* a variant that looks at the balance before looking at the installed list
remove_gene_CostCheckFirst(gene_name) ==
    IF ep < GameState_get_remove_cost(gene_name)
    THEN /\ last' = Call("remove", gene_name, FALSE, "insufficient_ep")
         /\ emitted' = << >>
         /\ UNCHANGED <<ep, deck, selected_genes, game_rest>>
    ELSE IF gene_name \notin Range(installed_genes)
    THEN /\ last' = Call("remove", gene_name, FALSE, "not_installed")
         /\ emitted' = << >>
         /\ UNCHANGED <<ep, deck, selected_genes, game_rest>>
    ELSE /\ ep' = ep - GameState_get_remove_cost(gene_name)
         /\ selected_genes' = VirusBuilder_remove_gene(selected_genes, gene_name)
         /\ last' = Call("remove", gene_name, TRUE, "")
         /\ emitted' = Emit(ChangeSignals)
         /\ UNCHANGED <<deck, game_rest>>

\* a variant that spends the EP before checking the balance
remove_gene_SpendFirst(gene_name) ==
    IF gene_name \notin Range(installed_genes)
    THEN /\ last' = Call("remove", gene_name, FALSE, "not_installed")
         /\ emitted' = << >>
         /\ UNCHANGED <<ep, deck, selected_genes, game_rest>>
    ELSE IF ep < GameState_get_remove_cost(gene_name)
    THEN /\ ep' = ep - GameState_get_remove_cost(gene_name)
         /\ last' = Call("remove", gene_name, FALSE, "insufficient_ep")
         /\ emitted' = << >>
         /\ UNCHANGED <<deck, selected_genes, game_rest>>
    ELSE /\ ep' = ep - GameState_get_remove_cost(gene_name)
         /\ selected_genes' = VirusBuilder_remove_gene(selected_genes, gene_name)
         /\ last' = Call("remove", gene_name, TRUE, "")
         /\ emitted' = Emit(ChangeSignals)
         /\ UNCHANGED <<deck, game_rest>>

\* a variant that pays the remove cost back instead of charging it
remove_gene_Refund(gene_name) ==
    IF gene_name \notin Range(installed_genes)
    THEN /\ last' = Call("remove", gene_name, FALSE, "not_installed")
         /\ emitted' = << >>
         /\ UNCHANGED <<ep, deck, selected_genes, game_rest>>
    ELSE IF ep < GameState_get_remove_cost(gene_name)
    THEN /\ last' = Call("remove", gene_name, FALSE, "insufficient_ep")
         /\ emitted' = << >>
         /\ UNCHANGED <<ep, deck, selected_genes, game_rest>>
    ELSE /\ ep' = ep + GameState_get_remove_cost(gene_name)
         /\ selected_genes' = VirusBuilder_remove_gene(selected_genes, gene_name)
         /\ last' = Call("remove", gene_name, TRUE, "")
         /\ emitted' = Emit(ChangeSignals)
         /\ UNCHANGED <<deck, game_rest>>

remove_gene(gene_name) ==
    IF gene_name \notin Range(installed_genes)
    THEN /\ last' = Call("remove", gene_name, FALSE, "not_installed")
         /\ emitted' = << >>
         /\ UNCHANGED <<ep, deck, selected_genes, game_rest>>
    ELSE IF ep < GameState_get_remove_cost(gene_name)
    THEN /\ last' = Call("remove", gene_name, FALSE, "insufficient_ep")
         /\ emitted' = << >>
         /\ UNCHANGED <<ep, deck, selected_genes, game_rest>>
    ELSE /\ ep' = ep - GameState_get_remove_cost(gene_name)
         /\ selected_genes' = VirusBuilder_remove_gene(selected_genes, gene_name)
         /\ last' = Call("remove", gene_name, TRUE, "")
         /\ emitted' = Emit(ChangeSignals)
         /\ UNCHANGED <<deck, game_rest>>

(***************************************************************************)
(* Blueprint composition (VirusBuilder.get_virus_capabilities, modelled    *)
(* from the specification, section 4.2)                                    *)
(***************************************************************************)
\* the effects of the installed genes in replay order
RECURSIVE InstalledEffects(_)
InstalledEffects(sel) ==
    IF sel = << >> THEN << >>
    ELSE Head(sel).effects \o InstalledEffects(Tail(sel))

HasRule(rules, rule_name) == \E i \in DOMAIN rules : rules[i].name = rule_name

\* the modification of the named rule in place
ApplyModification(rules, e) ==
    [i \in DOMAIN rules |->
        IF rules[i].name = e.rule_name
            THEN [rules[i] EXCEPT !.probability = @ + e.probability_delta]
            ELSE rules[i]]

CompositionFailed(reason) == [error |-> reason, transition_rules |-> << >>]

\* a variant that appends a rule whatever its name
RECURSIVE Replay_AllowDuplicate(_, _)
Replay_AllowDuplicate(effects, rules) ==
    IF effects = << >> THEN [error |-> "", transition_rules |-> rules]
    ELSE LET e == Head(effects)
         IN  IF e.type = "add_transition"
             THEN Replay_AllowDuplicate(Tail(effects), Append(rules, e.rule))
             ELSE IF ~HasRule(rules, e.rule_name)
                  THEN CompositionFailed("unknown_rule_reference")
                  ELSE Replay_AllowDuplicate(Tail(effects), ApplyModification(rules, e))

\* a variant that skips a modification whose rule is not there
RECURSIVE Replay_SkipUnknown(_, _)
Replay_SkipUnknown(effects, rules) ==
    IF effects = << >> THEN [error |-> "", transition_rules |-> rules]
    ELSE LET e == Head(effects)
         IN  IF e.type = "add_transition"
             THEN IF HasRule(rules, e.rule.name)
                  THEN CompositionFailed("duplicate_rule_name")
                  ELSE Replay_SkipUnknown(Tail(effects), Append(rules, e.rule))
             ELSE Replay_SkipUnknown(Tail(effects), ApplyModification(rules, e))

\* a variant in which a modification sets the probability instead of adding
RECURSIVE Replay_Overwrite(_, _)
Replay_Overwrite(effects, rules) ==
    IF effects = << >> THEN [error |-> "", transition_rules |-> rules]
    ELSE LET e == Head(effects)
         IN  IF e.type = "add_transition"
             THEN IF HasRule(rules, e.rule.name)
                  THEN CompositionFailed("duplicate_rule_name")
                  ELSE Replay_Overwrite(Tail(effects), Append(rules, e.rule))
             ELSE IF ~HasRule(rules, e.rule_name)
                  THEN CompositionFailed("unknown_rule_reference")
                  ELSE Replay_Overwrite(Tail(effects),
                           [i \in DOMAIN rules |->
                               IF rules[i].name = e.rule_name
                                   THEN [rules[i] EXCEPT !.probability = e.probability_delta]
                                   ELSE rules[i]])

\* replays the effects in order over the rules added so far
RECURSIVE Replay(_, _)
Replay(effects, rules) ==
    IF effects = << >> THEN [error |-> "", transition_rules |-> rules]
    ELSE LET e == Head(effects)
         IN  IF e.type = "add_transition"
             THEN IF HasRule(rules, e.rule.name)
                  THEN CompositionFailed("duplicate_rule_name")
                  ELSE Replay(Tail(effects), Append(rules, e.rule))
             ELSE IF ~HasRule(rules, e.rule_name)
                  THEN CompositionFailed("unknown_rule_reference")
                  ELSE Replay(Tail(effects), ApplyModification(rules, e))

\* the entity names of the inputs and outputs of a rule
RuleEntities(rule) ==
    {rule.inputs[i][1] : i \in DOMAIN rule.inputs}
        \cup {rule.outputs[i][1] : i \in DOMAIN rule.outputs}

\* a variant that collects the inputs of the rules only
possible_entities_InputsOnly(starter, rules) ==
    {starter} \cup UNION {{rules[k].inputs[i][1] : i \in DOMAIN rules[k].inputs} :
                              k \in DOMAIN rules}

possible_entities(starter, rules) ==
    {starter} \cup UNION {RuleEntities(rules[k]) : k \in DOMAIN rules}

\* the blueprint; error names the fault of a malformed effect list, and a
\* failed composition carries no rules and no entities
VirusBuilder_get_virus_capabilities(sel, starter, count) ==
    LET composed == Replay(InstalledEffects(sel), << >>)
    IN  [error |-> composed.error,
         starting_entities |-> (starter :> count),
         genes |-> NamesOf(sel),
         transition_rules |-> composed.transition_rules,
         possible_entities |->
             IF composed.error = ""
                 THEN possible_entities(starter, composed.transition_rules)
                 ELSE {}]

(***************************************************************************)
(* GameState: starter selection and milestones (modelled from the          *)
(* specification, sections 4.3 and 4.4)                                    *)
(***************************************************************************)
\* the starter selected in a new game
DefaultStarterEntity == "Virion-X"

\* GameState.get_starting_entity_count()
starting_entity_count == 10

\* the entity names a caller passes to set_starter_entity; Prion is unknown
StarterArgs == {"Virion-X", "Virion-Y", "Prion"}

GameState_set_starter_entity(entity_name) == entity_name \in DOMAIN EntityDatabase

\* the milestones in declaration order; measure names the progress function
Milestones ==
    << [id |-> "first_rule",  reward |-> 10, target |-> 1, measure |-> "rules"],
       [id |-> "three_genes", reward |-> 20, target |-> 3, measure |-> "genes"] >>

MilestoneIds == {Milestones[i].id : i \in DOMAIN Milestones}

\* the progress function of a milestone over the blueprint
Progress(m, blueprint) ==
    IF m.measure = "rules" THEN Len(blueprint.transition_rules)
    ELSE Len(blueprint.genes)

Ledger(balance, achieved, granted) ==
    [ep |-> balance, achieved |-> achieved, granted |-> granted]

\* a variant that credits the reward of every milestone at its target
RECURSIVE Evaluate_CreditAgain(_, _, _)
Evaluate_CreditAgain(ms, blueprint, ledger) ==
    IF ms = << >> THEN ledger
    ELSE LET m == Head(ms)
         IN  IF Progress(m, blueprint) >= m.target
             THEN Evaluate_CreditAgain(Tail(ms), blueprint,
                      Ledger(ledger.ep + m.reward,
                             ledger.achieved \cup {m.id},
                             [ledger.granted EXCEPT ![m.id] = @ + 1]))
             ELSE Evaluate_CreditAgain(Tail(ms), blueprint, ledger)

\* a variant that takes a milestone back when its progress is below target
RECURSIVE Evaluate_Recompute(_, _, _)
Evaluate_Recompute(ms, blueprint, ledger) ==
    IF ms = << >> THEN ledger
    ELSE LET m == Head(ms)
         IN  IF m.id \in ledger.achieved
             THEN Evaluate_Recompute(Tail(ms), blueprint,
                      IF Progress(m, blueprint) >= m.target THEN ledger
                      ELSE Ledger(ledger.ep, ledger.achieved \ {m.id}, ledger.granted))
             ELSE IF Progress(m, blueprint) >= m.target
             THEN Evaluate_Recompute(Tail(ms), blueprint,
                      Ledger(ledger.ep + m.reward,
                             ledger.achieved \cup {m.id},
                             [ledger.granted EXCEPT ![m.id] = @ + 1]))
             ELSE Evaluate_Recompute(Tail(ms), blueprint, ledger)

\* the evaluator: each milestone not yet achieved whose progress has reached
\* its target is marked achieved and its reward credited
RECURSIVE Evaluate(_, _, _)
Evaluate(ms, blueprint, ledger) ==
    IF ms = << >> THEN ledger
    ELSE LET m == Head(ms)
         IN  IF m.id \in ledger.achieved
             THEN Evaluate(Tail(ms), blueprint, ledger)
             ELSE IF Progress(m, blueprint) >= m.target
             THEN Evaluate(Tail(ms), blueprint,
                      Ledger(ledger.ep + m.reward,
                             ledger.achieved \cup {m.id},
                             [ledger.granted EXCEPT ![m.id] = @ + 1]))
             ELSE Evaluate(Tail(ms), blueprint, ledger)

(***************************************************************************)
(* BuildViewModel, continued: blueprint, starter and milestones            *)
(***************************************************************************)
get_virus_blueprint ==
    VirusBuilder_get_virus_capabilities(selected_genes, selected_starter_entity,
                                        starting_entity_count)

\* the signals set_starter_entity emits
StarterSignals == <<"starter_entity_changed", "blueprint_changed">>

\* a variant that does not look at what the game state returns
set_starter_entity_Unchecked(entity_name) ==
    /\ selected_starter_entity' = entity_name
    /\ last' = Call("set_starter", entity_name, TRUE, "")
    /\ UNCHANGED <<ep, deck, selected_genes, milestone_state>>
    /\ emitted' = Emit(StarterSignals)

set_starter_entity(entity_name) ==
    IF GameState_set_starter_entity(entity_name)
    THEN /\ selected_starter_entity' = entity_name
         /\ last' = Call("set_starter", entity_name, TRUE, "")
         /\ UNCHANGED <<ep, deck, selected_genes, milestone_state>>
         /\ emitted' = Emit(StarterSignals)
    ELSE /\ last' = Call("set_starter", entity_name, FALSE, "unknown_entity")
         /\ emitted' = << >>
         /\ UNCHANGED <<ep, deck, selected_genes, game_rest>>

\* one run of the milestone evaluator over the blueprint composed from the
\* current state; without a blueprint there is nothing to evaluate
evaluate_milestones ==
    IF get_virus_blueprint.error # ""
    THEN /\ last' = Call("evaluate", "", FALSE, get_virus_blueprint.error)
         /\ emitted' = << >>
         /\ UNCHANGED <<ep, deck, selected_genes, game_rest>>
    ELSE LET ledger == Evaluate(Milestones, get_virus_blueprint,
                                Ledger(ep, achieved_milestones, rewards_granted))
         IN  /\ ep' = ledger.ep
             /\ achieved_milestones' = ledger.achieved
             /\ rewards_granted' = ledger.granted
             /\ last' = Call("evaluate", "", TRUE, "")
             /\ emitted' = << >>
             /\ UNCHANGED <<deck, selected_genes, selected_starter_entity>>

\* no gene: None in the source
NoGene == ""

\* VirusBuilder.get_selected_polymerase_gene(): the scan of the installed
\* genes for the polymerase gene, NoGene when there is none
RECURSIVE VirusBuilder_get_selected_polymerase_gene(_)
VirusBuilder_get_selected_polymerase_gene(sel) ==
    IF sel = << >> THEN NoGene
    ELSE IF Head(sel).is_polymerase THEN Head(sel).name
    ELSE VirusBuilder_get_selected_polymerase_gene(Tail(sel))

has_polymerase == VirusBuilder_has_polymerase_gene(selected_genes)

get_polymerase_gene == VirusBuilder_get_selected_polymerase_gene(selected_genes)

\* GameState.get_available_starter_entities()
GameState_get_available_starter_entities == <<"Virion-X", "Virion-Y">>

(***************************************************************************)
(* The widgets of the build module (src/ui_builder.py)                     *)
(***************************************************************************)
VARIABLES
    deck_cards,          \* GeneDeckPanel._cards: per deck gene, the card's
                         \* _is_installed and _is_available
    installed_panel,     \* InstalledGenesPanel: _cards (names in order),
                         \* _selected_gene, remove_btn enabled
    blueprint_view,      \* the blueprint BlueprintGraphView was last given
    starter_combo,       \* HeaderBar.starter_combo: items and current text
    starter_connections, \* connections currentTextChanged -> _on_starter_changed
    set_starter_calls    \* calls of set_starter_entity made while the last
                         \* selection in the combo was handled

widgets == <<deck_cards, installed_panel, blueprint_view, starter_combo>>

wiring == <<starter_connections, set_starter_calls>>

vars == <<core, widgets, wiring>>

\* a variant of update_genes that shows a card for every gene of the database
GeneDeckPanel_update_genes_AllGenes ==
    [gene_name \in all_genes |->
        [is_installed |-> gene_name \in Range(installed_genes),
         is_available |-> IF gene_name \in Range(installed_genes)
                              THEN TRUE
                              ELSE can_install_gene(gene_name)[1]]]

\* GeneDeckPanel.update_genes over the view model: a card per deck gene that
\* the database knows; a new card is available, and only a card of a gene
\* that is not installed is given the result of can_install_gene
GeneDeckPanel_update_genes ==
    [gene_name \in {g \in Range(deck) : g \in all_genes} |->
        [is_installed |-> gene_name \in Range(installed_genes),
         is_available |-> IF gene_name \in Range(installed_genes)
                              THEN TRUE
                              ELSE can_install_gene(gene_name)[1]]]

\* a variant of update_genes that clears the cards and keeps the selection
InstalledGenesPanel_update_genes_KeepSelection(panel, installed) ==
    [cards |-> SelectSeq(installed, LAMBDA g : g \in all_genes),
     selected_gene |-> panel.selected_gene,
     remove_btn |-> FALSE]

\* InstalledGenesPanel.update_genes: new cards, no selection, button disabled
InstalledGenesPanel_update_genes(panel, installed) ==
    [cards |-> SelectSeq(installed, LAMBDA g : g \in all_genes),
     selected_gene |-> NoGene,
     remove_btn |-> FALSE]

\* InstalledGenesPanel._on_card_clicked: a click on the selected card
\* deselects it, a click on another card selects that one
InstalledGenesPanel_on_card_clicked(panel, gene_name) ==
    IF panel.selected_gene = gene_name
    THEN [panel EXCEPT !.selected_gene = NoGene, !.remove_btn = FALSE]
    ELSE [panel EXCEPT !.selected_gene = gene_name, !.remove_btn = TRUE]

\* QComboBox clear(), addItem() per entity and setCurrentIndex(findText()):
\* the items, the current text, and the texts currentTextChanged carries
\* when the signals of the combo are not blocked
ComboRefresh(blocked, combo, entities, selected) ==
    LET added == IF entities = << >> THEN "" ELSE entities[1]
        final == IF selected \in Range(entities) THEN selected ELSE added
        cleared == IF combo.currentText # "" THEN <<"">> ELSE << >>
        first == IF added # "" THEN <<added>> ELSE << >>
        indexed == IF final # added THEN <<final>> ELSE << >>
    IN  [items |-> entities, currentText |-> final,
         signals |-> IF blocked THEN << >> ELSE cleared \o first \o indexed]

\* HeaderBar.update_starter_entities: blockSignals(True) ... blockSignals(False)
HeaderBar_update_starter_entities(combo, entities, selected) ==
    ComboRefresh(TRUE, combo, entities, selected)

\* BuildModule._update_starter
BuildModule_update_starter(combo, selected) ==
    HeaderBar_update_starter_entities(combo,
        GameState_get_available_starter_entities, selected)

Combo(refresh) == [items |-> refresh.items, currentText |-> refresh.currentText]

Emitted(signal) == \E i \in DOMAIN emitted : emitted[i].signal = signal

\* a variant of _update_installed that leaves the deck panel alone
BuildModule_update_installed_NoDeck ==
    /\ installed_panel' =
           InstalledGenesPanel_update_genes(installed_panel, installed_genes')
    /\ deck_cards' = deck_cards

\* BuildModule._update_installed: the installed panel, then _update_deck
BuildModule_update_installed ==
    /\ installed_panel' =
           InstalledGenesPanel_update_genes(installed_panel, installed_genes')
    /\ deck_cards' = GeneDeckPanel_update_genes'

\* a variant in which blueprint_changed reaches no slot
BuildModule_update_blueprint_Never ==
    blueprint_view' = blueprint_view

\* BuildModule._update_blueprint
BuildModule_update_blueprint ==
    blueprint_view' = get_virus_blueprint'

\* the slots set_game_context connects, run for the signals the call emitted;
\* combo is the combo as the call found it
RunSlots(combo) ==
    /\ IF Emitted("installed_changed")'
           THEN BuildModule_update_installed
           ELSE UNCHANGED <<installed_panel, deck_cards>>
    /\ IF Emitted("blueprint_changed")'
           THEN BuildModule_update_blueprint
           ELSE UNCHANGED blueprint_view
    /\ starter_combo' = IF Emitted("starter_entity_changed")'
                            THEN Combo(BuildModule_update_starter(
                                           combo, selected_starter_entity'))
                            ELSE combo

(***************************************************************************)
(* VirusSandboxApplication.start_new_game_with_database (src/main.py)      *)
(***************************************************************************)
\* random.sample(all_genes, k): every list of k distinct gene names
Samples(S, k) ==
    {s \in [1..k -> S] : \A i, j \in 1..k : i # j => s[i] # s[j]}

initial_deck_size == Min(MaxDeckSize, Cardinality(all_genes))

\* game_state.ep = 100  # Default starting EP
StartingEP == 100

NewGameCall ==
    [op |-> "new_game", gene |-> "", ok |-> TRUE, reason |-> "",
     ep0 |-> StartingEP, installed0 |-> << >>,
     achieved0 |-> {}, starter0 |-> DefaultStarterEntity,
     again |-> FALSE, undo |-> << >>]

\* the sum of the install costs of a list of genes
RECURSIVE SumInstallCost(_)
SumInstallCost(names) ==
    IF names = << >> THEN 0
    ELSE GameState_get_gene_cost(Head(names)) + SumInstallCost(Tail(names))

\* a variant in which the genes of the deck are installed at their cost
NewGame_InstallCharged(deck_size) ==
    /\ deck \in Samples(all_genes, deck_size)
    /\ selected_genes = BuildViewModel_init(<< >>, deck)
    /\ ep = StartingEP - SumInstallCost(installed_genes)
    /\ selected_starter_entity = DefaultStarterEntity
    /\ achieved_milestones = {}
    /\ rewards_granted = [id \in MilestoneIds |-> 0]
    /\ last = NewGameCall
    /\ emitted = << >>

NewGame(deck_size) ==
    /\ ep = StartingEP
    /\ deck \in Samples(all_genes, deck_size)
    /\ selected_genes = BuildViewModel_init(<< >>, deck)
    /\ selected_starter_entity = DefaultStarterEntity
    /\ achieved_milestones = {}
    /\ rewards_granted = [id \in MilestoneIds |-> 0]
    /\ last = NewGameCall
    /\ emitted = << >>

start_new_game_with_database == NewGame(initial_deck_size)

\* the widgets as setup_ui builds them
NoCards == [gene_name \in {} |-> TRUE]

NoPanel == [cards |-> << >>, selected_gene |-> NoGene, remove_btn |-> FALSE]

NoBlueprint == CompositionFailed("")

NoCombo == [items |-> << >>, currentText |-> ""]

\* a view model that no module is connected to: its signals reach no slot
Unconnected ==
    /\ deck_cards = NoCards
    /\ installed_panel = NoPanel
    /\ blueprint_view = NoBlueprint
    /\ starter_combo = NoCombo
    /\ starter_connections = 0
    /\ set_starter_calls = 0

\* the view model of a new game, called directly
Init == start_new_game_with_database /\ Unconnected

Install ==
    \E gene_name \in GeneArgs :
        install_gene(gene_name) /\ UNCHANGED <<widgets, wiring>>

Remove ==
    \E gene_name \in GeneArgs :
        remove_gene(gene_name) /\ UNCHANGED <<widgets, wiring>>

Next == Install \/ Remove

Spec == Init /\ [][Next]_vars

(***************************************************************************)
(* The session with starter changes and milestone evaluation as well       *)
(***************************************************************************)
SetStarter ==
    \E entity_name \in StarterArgs :
        set_starter_entity(entity_name) /\ UNCHANGED <<widgets, wiring>>

EvaluateMilestones == evaluate_milestones /\ UNCHANGED <<widgets, wiring>>

GameNext == Install \/ Remove \/ SetStarter \/ EvaluateMilestones

\* the deck of a session with starter changes and evaluation is kept smaller
MaxGameDeckSize == 1

GameInit ==
    NewGame(Min(MaxGameDeckSize, Cardinality(all_genes))) /\ Unconnected

GameSpec == GameInit /\ [][GameNext]_vars

(***************************************************************************)
(* The build module with its widgets: the player clicks cards and buttons  *)
(* and picks a starter; the controller starts new games                    *)
(***************************************************************************)
\* the deck of a game played on the widgets is kept smaller
MaxUiDeckSize == 2

ui_deck_size == Min(MaxUiDeckSize, Cardinality(all_genes))

\* the games of one session, and the deck of a session of several games
MaxGames == 2

MaxSessionDeckSize == 1

session_deck_size == Min(MaxSessionDeckSize, Cardinality(all_genes))

\* the ledger of a new game after _refresh_all: _update_milestones asks the
\* game state for the milestone progress of the builder's blueprint
RefreshedLedger(sel) ==
    LET blueprint == VirusBuilder_get_virus_capabilities(
                         sel, DefaultStarterEntity, starting_entity_count)
        ledger == Ledger(StartingEP, {}, [id \in MilestoneIds |-> 0])
    IN  IF blueprint.error # "" THEN ledger
        ELSE Evaluate(Milestones, blueprint, ledger)

\* start_new_game_with_database with set_game_context and show()
SetGameContext(deck_size) ==
    \E d \in Samples(all_genes, deck_size) :
        LET sel == BuildViewModel_init(<< >>, d)
            ledger == RefreshedLedger(sel)
        IN  /\ deck = d
            /\ selected_genes = sel
            /\ selected_starter_entity = DefaultStarterEntity
            /\ ep = ledger.ep
            /\ achieved_milestones = ledger.achieved
            /\ rewards_granted = ledger.granted
            /\ last = NewGameCall
            /\ emitted = << >>
            /\ deck_cards = GeneDeckPanel_update_genes
            /\ installed_panel =
                   InstalledGenesPanel_update_genes(NoPanel, installed_genes)
            /\ blueprint_view = get_virus_blueprint
            /\ starter_combo = Combo(BuildModule_update_starter(
                                         NoCombo, selected_starter_entity))
            /\ starter_connections = 1
            /\ set_starter_calls = 0

\* a further game on the same build module: a new game state and view model,
\* and set_game_context connects the combo once more
StartNewGame ==
    /\ starter_connections < MaxGames
    /\ \E d \in Samples(all_genes, session_deck_size) :
        LET sel == BuildViewModel_init(<< >>, d)
            ledger == RefreshedLedger(sel)
        IN  /\ deck' = d
            /\ selected_genes' = sel
            /\ selected_starter_entity' = DefaultStarterEntity
            /\ ep' = ledger.ep
            /\ achieved_milestones' = ledger.achieved
            /\ rewards_granted' = ledger.granted
            /\ last' = NewGameCall
            /\ emitted' = << >>
            /\ deck_cards' = GeneDeckPanel_update_genes'
            /\ installed_panel' =
                   InstalledGenesPanel_update_genes(installed_panel,
                                                    installed_genes')
            /\ blueprint_view' = get_virus_blueprint'
            /\ starter_combo' = Combo(BuildModule_update_starter(
                                          starter_combo, DefaultStarterEntity))
            /\ starter_connections' = starter_connections + 1
            /\ set_starter_calls' = 0

\* _on_gene_clicked asks before it installs a gene that costs more
ConfirmCost == 20

Replies(asked) == IF asked THEN {"Yes", "No"} ELSE {"Yes"}

\* GeneCard.mousePressEvent on a card that is available, then
\* BuildModule._on_gene_clicked
OnGeneClicked ==
    \E gene_name \in DOMAIN deck_cards :
        /\ deck_cards[gene_name].is_available
        /\ \E reply \in Replies(Database[gene_name].cost > ConfirmCost) :
               IF reply # "Yes" THEN UNCHANGED vars
               ELSE /\ install_gene(gene_name)
                    /\ RunSlots(starter_combo)
                    /\ UNCHANGED wiring

\* a click on a card of the installed panel
OnCardClicked ==
    \E gene_name \in Range(installed_panel.cards) :
        /\ installed_panel' =
               InstalledGenesPanel_on_card_clicked(installed_panel, gene_name)
        /\ UNCHANGED <<core, deck_cards, blueprint_view, starter_combo, wiring>>

\* a click on the enabled remove button: InstalledGenesPanel._on_remove_clicked
\* emits remove_clicked for the selected gene, BuildModule._on_remove_gene asks
OnRemoveClicked ==
    /\ installed_panel.remove_btn
    /\ IF installed_panel.selected_gene = NoGene THEN UNCHANGED vars
       ELSE \E reply \in Replies(TRUE) :
                IF reply # "Yes" THEN UNCHANGED vars
                ELSE /\ remove_gene(installed_panel.selected_gene)
                     /\ RunSlots(starter_combo)
                     /\ UNCHANGED wiring

\* the calls of set_starter_entity one currentTextChanged brings about: one
\* per connection, and one per connection again for every text the refresh
\* of the combo lets out
StarterCalls(connections, refresh) ==
    connections
        * (1 + connections
                 * Len(SelectSeq(refresh.signals, LAMBDA text : text # "")))

\* the player picks another item of the combo: BuildModule._on_starter_changed
OnStarterChanged ==
    \E entity_name \in Range(starter_combo.items) :
        /\ entity_name # starter_combo.currentText
        /\ entity_name # ""
        /\ LET picked == [starter_combo EXCEPT !.currentText = entity_name]
           IN  /\ set_starter_entity(entity_name)
               /\ RunSlots(picked)
               /\ set_starter_calls' =
                      IF Emitted("starter_entity_changed")'
                          THEN StarterCalls(starter_connections,
                                   BuildModule_update_starter(
                                       picked, selected_starter_entity'))
                          ELSE starter_connections
               /\ UNCHANGED starter_connections

UiInit == SetGameContext(ui_deck_size)

UiNext ==
    \/ OnGeneClicked
    \/ OnCardClicked
    \/ OnRemoveClicked
    \/ OnStarterChanged

\* one game on the widgets of the build module
UiSpec == UiInit /\ [][UiNext]_vars

SessionInit == SetGameContext(session_deck_size)

SessionNext ==
    \/ OnGeneClicked
    \/ OnCardClicked
    \/ OnRemoveClicked
    \/ OnStarterChanged
    \/ StartNewGame

\* a session of several games on the one build module
SessionSpec == SessionInit /\ [][SessionNext]_vars

(***************************************************************************)
(* Properties.  They are stated over the database and the names of the     *)
(* installed genes, not over the operators of the model above.             *)
(***************************************************************************)
InstalledSet == Range(installed_genes)

Requires(g) == Range(Database[g].requires)

IsPolymerase(g) == Database[g].is_polymerase

InstallCost(g) == Database[g].cost

RemoveCost(g) == Database[g].remove_cost

\* the names removed by the last call
Removed == Range(last.installed0) \ InstalledSet

\* the code's name of the reason the specification calls insufficient_points
insufficient_points == "insufficient_ep"

\* h depends on g through a chain of requires entries
RECURSIVE DependsOn(_, _)
DependsOn(h, g) ==
    \E r \in Requires(h) : r = g \/ DependsOn(r, g)

\* the restriction of a list of names to the names outside a set
Without(names, S) == SelectSeq(names, LAMBDA n : n \notin S)

\* C1: the ledger point balance (EP) is never negative, whatever sequence of
\* install and remove calls, successful or not, led to the state.
C1_BalanceNonNegative == ep >= 0

\* a successful call has brought the balance below the cheapest install cost
C1_Witness ==
    /\ last.op \in {"install", "remove"}
    /\ last.ok
    /\ ep < last.ep0
    /\ \A g \in all_genes : ep < InstallCost(g)

\* C2: after every install and every remove, every entry of the requires
\* list of every installed gene is installed too.
C2_PrerequisiteClosure ==
    \A g \in InstalledSet : Requires(g) \subseteq InstalledSet

\* a remove took dependents along and left a gene with prerequisites installed
C2_Witness ==
    /\ last.op = "remove"
    /\ last.ok
    /\ Cardinality(Removed) >= 2
    /\ \E g \in InstalledSet : Requires(g) # {}

\* C3 as stated: at most one polymerase gene is installed, and installing a
\* second one while one is installed is refused with polymerase_limit.
C3_Original ==
    /\ Cardinality({g \in InstalledSet : IsPolymerase(g)}) <= 1
    /\ \A g \in all_genes \ InstalledSet :
           (IsPolymerase(g) /\ \E h \in InstalledSet : IsPolymerase(h))
               => can_install_gene(g) = <<FALSE, "polymerase_limit">>

\* C3 as amended: at most one polymerase gene is installed; installing a
\* second one while one is installed is refused, with polymerase_limit when
\* all its prerequisites are installed and with missing_prerequisites, the
\* earlier check, when they are not.
C3_PolymeraseLimit ==
    /\ Cardinality({g \in InstalledSet : IsPolymerase(g)}) <= 1
    /\ \A g \in all_genes \ InstalledSet :
           (IsPolymerase(g) /\ \E h \in InstalledSet : IsPolymerase(h))
               => can_install_gene(g) =
                      IF Requires(g) \subseteq InstalledSet
                          THEN <<FALSE, "polymerase_limit">>
                          ELSE <<FALSE, "missing_prerequisites">>

\* a second polymerase whose prerequisites are installed has just been refused
C3_Witness ==
    /\ last.op = "install"
    /\ ~last.ok
    /\ last.gene \in all_genes \ InstalledSet
    /\ IsPolymerase(last.gene)
    /\ Requires(last.gene) # {}
    /\ Requires(last.gene) \subseteq InstalledSet
    /\ \E h \in InstalledSet : IsPolymerase(h)
    /\ ep >= InstallCost(last.gene)

\* C4: no gene name occurs twice in the installed list; installing an
\* installed gene is refused with already_installed and leaves the list as
\* it was.
C4_NoDuplicates ==
    /\ \A i, j \in DOMAIN installed_genes :
           installed_genes[i] = installed_genes[j] => i = j
    /\ \A g \in InstalledSet :
           can_install_gene(g) = <<FALSE, "already_installed">>
    /\ (last.op = "install" /\ last.gene \in Range(last.installed0))
           => (~last.ok /\ installed_genes = last.installed0)

\* an affordable gene that is installed has been requested again
C4_Witness ==
    /\ last.op = "install"
    /\ last.gene \in Range(last.installed0)
    /\ last.ep0 >= InstallCost(last.gene)

\* the reason of the first failing check, the checks taken in the order
\* unknown_gene, already_installed, missing_prerequisites, polymerase_limit,
\* insufficient_points; the empty reason when no check fails
FirstFailingCheck(g) ==
    IF g \notin all_genes THEN "unknown_gene"
    ELSE IF g \in InstalledSet THEN "already_installed"
    ELSE IF \E r \in Requires(g) : r \notin InstalledSet
        THEN "missing_prerequisites"
    ELSE IF IsPolymerase(g) /\ \E h \in InstalledSet \ {g} : IsPolymerase(h)
        THEN "polymerase_limit"
    ELSE IF ep < InstallCost(g) THEN insufficient_points
    ELSE ""

\* C5: can_install reports the first failing check in the fixed order
\* unknown_gene, already_installed, missing_prerequisites, polymerase_limit,
\* insufficient_points; the balance check is last.
C5_CheckOrder ==
    \A g \in GeneArgs :
        can_install_gene(g) = <<FirstFailingCheck(g) = "", FirstFailingCheck(g)>>

\* one gene is only unaffordable, another is unaffordable and fails an
\* earlier check as well
C5_Witness ==
    /\ \E g \in all_genes : can_install_gene(g) = <<FALSE, insufficient_points>>
    /\ \E g \in all_genes \ InstalledSet :
           /\ ep < InstallCost(g)
           /\ can_install_gene(g)[2] \in {"missing_prerequisites", "polymerase_limit"}

\* can_install in the state the last call started from
AllowedBefore(g) ==
    /\ g \in all_genes
    /\ g \notin Range(last.installed0)
    /\ Requires(g) \subseteq Range(last.installed0)
    /\ ~(IsPolymerase(g) /\ \E h \in Range(last.installed0) : IsPolymerase(h))
    /\ last.ep0 >= InstallCost(g)

\* C6: an install that can_install does not allow fails and changes neither
\* the balance nor the installed list; an unaffordable gene stays absent.
C6_FailedInstallNoEffect ==
    (last.op = "install" /\ ~AllowedBefore(last.gene))
        => /\ ~last.ok
           /\ ep = last.ep0
           /\ installed_genes = last.installed0
           /\ (last.gene \in all_genes \ Range(last.installed0)
                   => last.gene \notin InstalledSet)

\* a gene that passes every check but the balance has been refused
C6_Witness ==
    /\ last.op = "install"
    /\ ~last.ok
    /\ last.gene \in all_genes \ InstalledSet
    /\ Requires(last.gene) \subseteq InstalledSet
    /\ ~(IsPolymerase(last.gene) /\ \E h \in InstalledSet : IsPolymerase(h))
    /\ ep < InstallCost(last.gene)
    /\ ep > 0
    /\ installed_genes # << >>

\* C7: a successful install takes exactly the install cost of the gene from
\* the balance and appends the gene behind the genes installed before.
C7_InstallEffect ==
    (last.op = "install" /\ last.ok)
        => /\ ep = last.ep0 - InstallCost(last.gene)
           /\ installed_genes = Append(last.installed0, last.gene)

\* a gene has been installed behind two others
C7_Witness ==
    /\ last.op = "install"
    /\ last.ok
    /\ Len(last.installed0) >= 2
    /\ InstallCost(last.gene) # RemoveCost(last.gene)

\* C8: a successful remove takes out the gene and every installed gene that
\* depends on it directly or indirectly; no gene that stays requires a gene
\* that went, and the genes that stay keep their order.
C8_RemoveClosure ==
    (last.op = "remove" /\ last.ok)
        => /\ Removed = {h \in Range(last.installed0) :
                             h = last.gene \/ DependsOn(h, last.gene)}
           /\ \A h \in InstalledSet : Requires(h) \cap Removed = {}
           /\ installed_genes = Without(last.installed0, Removed)

\* a remove took an indirect dependent along and left two genes installed
C8_Witness ==
    /\ last.op = "remove"
    /\ last.ok
    /\ \E h \in Removed : h # last.gene /\ last.gene \notin Requires(h)
    /\ Len(installed_genes) >= 2

\* C9: a successful remove takes exactly the remove cost of the requested
\* gene from the balance, however many dependents go with it.
C9_RemoveCost ==
    (last.op = "remove" /\ last.ok)
        => ep = last.ep0 - RemoveCost(last.gene)

\* a remove that took dependents along with a remove cost of their own
C9_Witness ==
    /\ last.op = "remove"
    /\ last.ok
    /\ \E h \in Removed : h # last.gene /\ RemoveCost(h) > 0
    /\ RemoveCost(last.gene) > 0

\* C10: a remove of an installed gene whose remove cost exceeds the balance
\* is refused as a whole: the installed list and the balance stay as they were.
C10_RemoveRejected ==
    (/\ last.op = "remove"
     /\ last.gene \in Range(last.installed0)
     /\ last.ep0 < RemoveCost(last.gene))
        => /\ ~last.ok
           /\ ep = last.ep0
           /\ installed_genes = last.installed0

\* the refused remove was of a gene with an installed dependent
C10_Witness ==
    /\ last.op = "remove"
    /\ last.gene \in Range(last.installed0)
    /\ last.ep0 < RemoveCost(last.gene)
    /\ \E h \in InstalledSet : last.gene \in Requires(h)

\* the reason can_remove gives in the state the last call started from
RemoveReasonBefore ==
    IF last.gene \notin Range(last.installed0) THEN "not_installed"
    ELSE IF last.ep0 < RemoveCost(last.gene) THEN insufficient_points
    ELSE ""

\* C11: a remove is refused with not_installed when the gene is not
\* installed, otherwise with insufficient_points when the balance is below
\* the remove cost of the gene, otherwise allowed; not_installed comes first.
C11_CanRemove ==
    last.op = "remove"
        => /\ last.reason = RemoveReasonBefore
           /\ last.ok <=> (RemoveReasonBefore = "")

\* a known gene that is not installed and whose remove cost exceeds the
\* balance has been refused
C11_Witness ==
    /\ last.op = "remove"
    /\ last.gene \in all_genes \ Range(last.installed0)
    /\ last.ep0 < RemoveCost(last.gene)
    /\ last.reason = "not_installed"

\* what a successful call of the kind of the last call does to the state
ChargeOfLast ==
    IF last.op = "install" THEN InstallCost(last.gene) ELSE RemoveCost(last.gene)

InstalledAfterLast ==
    IF last.op = "install"
        THEN Append(last.installed0, last.gene)
        ELSE Without(last.installed0,
                     {h \in Range(last.installed0) :
                          h = last.gene \/ DependsOn(h, last.gene)})

\* C12: every install or remove is all-or-nothing: it succeeds with both the
\* balance and the installed list changed as specified, or it fails with
\* both unchanged; never is one of the two changed and the other not.
C12_AllOrNothing ==
    last.op \in {"install", "remove"}
        => /\ \/ /\ last.ok
                 /\ ep = last.ep0 - ChargeOfLast
                 /\ installed_genes = InstalledAfterLast
              \/ /\ ~last.ok
                 /\ ep = last.ep0
                 /\ installed_genes = last.installed0
           /\ (ep # last.ep0) <=> (installed_genes # last.installed0)

\* a remove has been refused for the balance while the balance is not zero
C12_Witness ==
    /\ last.op = "remove"
    /\ ~last.ok
    /\ last.reason = insufficient_points
    /\ ep > 0
    /\ Len(installed_genes) >= 2

\* C13 as stated: an install of g followed at once by a remove of g leaves
\* the balance at the prior balance minus (install cost - remove cost) and
\* the installed list as it was before the install.
C13_Original ==
    (last.op = "remove" /\ last.ok /\ last.undo # << >>)
        => /\ ep = last.undo[1] - (InstallCost(last.gene) - RemoveCost(last.gene))
           /\ installed_genes = last.undo[2]

\* C13 as amended: the balance is the prior balance minus (install cost +
\* remove cost): the remove is charged, not paid back.
C13_InstallThenRemove ==
    (last.op = "remove" /\ last.ok /\ last.undo # << >>)
        => /\ ep = last.undo[1] - (InstallCost(last.gene) + RemoveCost(last.gene))
           /\ installed_genes = last.undo[2]

\* a gene installed behind two others has been removed by the next call
C13_Witness ==
    /\ last.op = "remove"
    /\ last.ok
    /\ last.undo # << >>
    /\ Len(last.undo[2]) >= 2

(***************************************************************************)
(* Properties of the composed blueprint.  The effect list is read from the *)
(* database by the names of the installed genes.                           *)
(***************************************************************************)
RECURSIVE EffectsOf(_)
EffectsOf(names) ==
    IF names = << >> THEN << >>
    ELSE Database[Head(names)].effects \o EffectsOf(Tail(names))

IsAdd(E, k) == E[k].type = "add_transition"

IsModify(E, k) == E[k].type = "modify_transition"

\* the name of the rule that effect k of the replay list E adds or modifies
TargetOf(E, k) == IF IsAdd(E, k) THEN E[k].rule.name ELSE E[k].rule_name

AddedBefore(E, k, rule_name) ==
    \E j \in 1..(k - 1) : IsAdd(E, j) /\ TargetOf(E, j) = rule_name

\* effect k adds a rule whose name an earlier effect has added
Collides(E, k) == IsAdd(E, k) /\ AddedBefore(E, k, TargetOf(E, k))

\* effect k modifies a rule that no earlier effect has added
Dangles(E, k) == IsModify(E, k) /\ ~AddedBefore(E, k, TargetOf(E, k))

Faulty(E, k) == Collides(E, k) \/ Dangles(E, k)

\* k is the first effect of the replay that cannot be applied
FirstFault(E, k) == Faulty(E, k) /\ \A j \in 1..(k - 1) : ~Faulty(E, j)

\* C15: the rule names of a composed blueprint are pairwise distinct; when
\* the first effect that cannot be applied adds a rule under a name already
\* added, composition fails with duplicate_rule_name and adds no second rule.
C15_UniqueRuleNames ==
    LET E == EffectsOf(installed_genes)
        blueprint == get_virus_blueprint
        rules == blueprint.transition_rules
    IN  /\ \A i, j \in DOMAIN rules : rules[i].name = rules[j].name => i = j
        /\ \A k \in DOMAIN E :
               (FirstFault(E, k) /\ Collides(E, k))
                   => blueprint.error = "duplicate_rule_name"
        /\ blueprint.error = "" => \A k \in DOMAIN E : ~Collides(E, k)

\* two installed genes add a rule of the same name and nothing else is wrong
C15_Witness ==
    LET E == EffectsOf(installed_genes)
    IN  /\ last.op = "install"
        /\ last.ok
        /\ \E k \in DOMAIN E : FirstFault(E, k) /\ Collides(E, k)
        /\ \A k \in DOMAIN E : ~Dangles(E, k)
        /\ get_virus_blueprint.error = "duplicate_rule_name"

\* C16: a modification is applied only to a rule added by an earlier effect
\* of the replay; when the first effect that cannot be applied modifies a
\* rule not yet added, composition fails with unknown_rule_reference.
C16_ModifyNeedsRule ==
    LET E == EffectsOf(installed_genes)
        blueprint == get_virus_blueprint
    IN  /\ \A k \in DOMAIN E :
               (FirstFault(E, k) /\ Dangles(E, k))
                   => blueprint.error = "unknown_rule_reference"
        /\ blueprint.error = ""
               => \A k \in DOMAIN E :
                      IsModify(E, k) => AddedBefore(E, k, TargetOf(E, k))

\* the rule is added, but by a gene installed after the gene that modifies it
C16_Witness ==
    LET E == EffectsOf(installed_genes)
    IN  /\ \E k \in DOMAIN E :
               /\ FirstFault(E, k)
               /\ Dangles(E, k)
               /\ \E j \in DOMAIN E :
                      j > k /\ IsAdd(E, j) /\ TargetOf(E, j) = TargetOf(E, k)
        /\ get_virus_blueprint.error = "unknown_rule_reference"

\* the entity names in the inputs and outputs of a list of rules
NamedInRules(rules) ==
    {e \in DOMAIN EntityDatabase \cup {"DNA-x"} :
        \E k \in DOMAIN rules :
            \/ \E i \in DOMAIN rules[k].inputs : rules[k].inputs[i][1] = e
            \/ \E i \in DOMAIN rules[k].outputs : rules[k].outputs[i][1] = e}

\* C17: possible_entities of a composed blueprint is the starter entity
\* together with every entity named in the inputs or outputs of a composed
\* rule; with nothing installed the blueprint is the starter with its count,
\* no rules, and the starter as the only possible entity.
C17_PossibleEntities ==
    LET blueprint == get_virus_blueprint
    IN  /\ blueprint.error = ""
               => blueprint.possible_entities =
                      {selected_starter_entity}
                          \cup NamedInRules(blueprint.transition_rules)
        /\ installed_genes = << >>
               => /\ blueprint.error = ""
                  /\ DOMAIN blueprint.starting_entities = {selected_starter_entity}
                  /\ blueprint.starting_entities[selected_starter_entity] = 10
                  /\ blueprint.transition_rules = << >>
                  /\ blueprint.possible_entities = {selected_starter_entity}
        /\ installed_genes = <<"CapEnz">>
               => blueprint.possible_entities =
                      {selected_starter_entity, "RNA-in", "RNA-out"}

\* a blueprint with two rules, an entity outside the database among them,
\* and a starter that no rule names
C17_Witness ==
    LET blueprint == get_virus_blueprint
    IN  /\ blueprint.error = ""
        /\ Len(blueprint.transition_rules) >= 2
        /\ "DNA-x" \in blueprint.possible_entities
        /\ selected_starter_entity \notin NamedInRules(blueprint.transition_rules)

\* the sum of the deltas of the modifications of a rule among the first n
\* effects of the replay list E
RECURSIVE DeltaSum(_, _, _)
DeltaSum(E, rule_name, n) ==
    IF n = 0 THEN 0
    ELSE DeltaSum(E, rule_name, n - 1)
             + (IF IsModify(E, n) /\ TargetOf(E, n) = rule_name
                    THEN E[n].probability_delta ELSE 0)

\* C18: CapEnz (adds Uncoat at 90 percent) and Booster (raises Uncoat by 5)
\* compose to a single rule Uncoat at 95 percent; in general the probability
\* of a composed rule is the probability it was added with plus the deltas
\* of the modifications replayed on it.
C18_ModificationsAdd ==
    LET E == EffectsOf(installed_genes)
        blueprint == get_virus_blueprint
        rules == blueprint.transition_rules
    IN  blueprint.error = ""
            => /\ \A k \in DOMAIN E :
                      IsAdd(E, k) =>
                          \E i \in DOMAIN rules :
                              /\ rules[i].name = TargetOf(E, k)
                              /\ rules[i].probability =
                                     E[k].rule.probability
                                         + DeltaSum(E, TargetOf(E, k), Len(E))
               /\ {"CapEnz", "Booster"} \subseteq InstalledSet
                      => /\ Cardinality({i \in DOMAIN rules :
                                             rules[i].name = "Uncoat"}) = 1
                         /\ \A i \in DOMAIN rules :
                                rules[i].name = "Uncoat"
                                    => rules[i].probability = 95

\* Booster has just been installed behind CapEnz
C18_Witness ==
    /\ last.op = "install"
    /\ last.ok
    /\ last.gene = "Booster"
    /\ "CapEnz" \in Range(last.installed0)
    /\ get_virus_blueprint.error = ""

(***************************************************************************)
(* Properties of the milestone evaluator                                   *)
(***************************************************************************)
\* C19: the reward of a milestone is credited exactly once; an evaluation
\* that follows an evaluation leaves the balance and the achieved set as
\* they were.
C19_RewardOnce ==
    /\ \A id \in MilestoneIds :
           rewards_granted[id] = IF id \in achieved_milestones THEN 1 ELSE 0
    /\ (last.op = "evaluate" /\ last.again)
           => /\ ep = last.ep0
              /\ achieved_milestones = last.achieved0

\* the second of two evaluations in a row, with both milestones achieved
C19_Witness ==
    /\ last.op = "evaluate"
    /\ last.ok
    /\ last.again
    /\ achieved_milestones = MilestoneIds

\* C20: a milestone that is achieved stays achieved through every install,
\* remove, starter change and evaluation, also when its progress has dropped
\* below its target.
C20_AchievedStays ==
    last.achieved0 \subseteq achieved_milestones

\* an evaluation has run while an achieved milestone was below its target
C20_Witness ==
    /\ last.op = "evaluate"
    /\ last.ok
    /\ \E i \in DOMAIN Milestones :
           /\ Milestones[i].id \in last.achieved0
           /\ Progress(Milestones[i], get_virus_blueprint) < Milestones[i].target

(***************************************************************************)
(* Properties of the calls of the view model and of the new game           *)
(***************************************************************************)
\* C21: after every successful install or remove the milestone evaluator
\* has run over the blueprint of the new installed genes: every milestone
\* whose target that blueprint reaches is achieved when the call returns.
C21_Original ==
    LET blueprint == get_virus_blueprint
    IN  (last.op \in {"install", "remove"} /\ last.ok /\ blueprint.error = "")
            => \A i \in DOMAIN Milestones :
                   Progress(Milestones[i], blueprint) >= Milestones[i].target
                       => Milestones[i].id \in achieved_milestones

\* C22: set_starter_entity with an entity the database does not know fails
\* with unknown_entity, emits nothing and leaves the selection and the
\* blueprint as they were; with a known entity it succeeds, the entity is
\* the selection, and the blueprint read next starts from that entity.
C22_SetStarter ==
    last.op = "set_starter"
        => IF last.gene \in DOMAIN EntityDatabase
           THEN /\ last.ok
                /\ selected_starter_entity = last.gene
                /\ DOMAIN get_virus_blueprint.starting_entities = {last.gene}
           ELSE /\ ~last.ok
                /\ last.reason = "unknown_entity"
                /\ emitted = << >>
                /\ selected_starter_entity = last.starter0
                /\ installed_genes = last.installed0
                /\ DOMAIN get_virus_blueprint.starting_entities
                       = {last.starter0}

\* an unknown entity was refused after the starter had been changed
C22_Witness ==
    /\ last.op = "set_starter"
    /\ ~last.ok
    /\ last.gene \notin DOMAIN EntityDatabase
    /\ last.starter0 # DefaultStarterEntity
    /\ installed_genes # << >>

\* C24: has_polymerase is true exactly when get_polymerase_gene returns a
\* gene; that gene is installed, is a polymerase, and no other installed
\* gene is one; without an installed polymerase both return false / none.
C24_Polymerase ==
    /\ has_polymerase <=> get_polymerase_gene # NoGene
    /\ get_polymerase_gene # NoGene
           => /\ get_polymerase_gene \in InstalledSet
              /\ IsPolymerase(get_polymerase_gene)
              /\ \A g \in InstalledSet :
                     IsPolymerase(g) => g = get_polymerase_gene
    /\ (\A g \in InstalledSet : ~IsPolymerase(g))
           => ~has_polymerase /\ get_polymerase_gene = NoGene

\* a polymerase is installed behind another gene, after a second polymerase
\* was refused
C24_Witness ==
    /\ has_polymerase
    /\ get_polymerase_gene # NoGene
    /\ installed_genes[1] # get_polymerase_gene
    /\ last.op = "install"
    /\ ~last.ok
    /\ last.reason = "polymerase_limit"

\* the deck genes installed before position i of the deck
InstalledBefore(i) == {deck[j] : j \in {k \in 1..(i - 1) : deck[k] \in InstalledSet}}

C26_Signals ==
    last.op \in {"install", "remove"}
        => IF last.ok
           THEN /\ Len(emitted) = 3
                /\ emitted[1].signal = "ep_changed"
                /\ emitted[2].signal = "installed_changed"
                /\ emitted[3].signal = "blueprint_changed"
                /\ \A i \in DOMAIN emitted :
                       /\ emitted[i].ep = ep
                       /\ emitted[i].installed = installed_genes
                /\ installed_genes # last.installed0
           ELSE emitted = << >>

\* a successful install that changed both the balance and the installed genes
C26_Witness ==
    /\ last.op = "install"
    /\ last.ok
    /\ Len(emitted) = 3
    /\ ep < last.ep0
    /\ Len(installed_genes) = Len(last.installed0) + 1

(***************************************************************************)
(* Properties of the widgets of the build module                           *)
(***************************************************************************)
\* the rule names that the effects of gene g add
AddedBy(g) ==
    {Database[g].effects[k].rule.name :
        k \in {n \in DOMAIN Database[g].effects :
                  Database[g].effects[n].type = "add_transition"}}

\* C23: the blueprint on display is the composition, from scratch, of the
\* installed genes in their order and the selected starter; after a remove
\* every rule on display is added by a gene still installed and carries the
\* modifications of the genes still installed and no others.
C23_FreshBlueprint ==
    LET E == EffectsOf(installed_genes)
        rules == blueprint_view.transition_rules
    IN  /\ blueprint_view =
               VirusBuilder_get_virus_capabilities(
                   selected_genes, selected_starter_entity,
                   starting_entity_count)
        /\ DOMAIN blueprint_view.starting_entities = {selected_starter_entity}
        /\ (last.op = "remove" /\ last.ok)
               => \A i \in DOMAIN rules :
                      /\ \E g \in InstalledSet : rules[i].name \in AddedBy(g)
                      /\ \E k \in DOMAIN E :
                             /\ IsAdd(E, k)
                             /\ TargetOf(E, k) = rules[i].name
                             /\ rules[i].probability =
                                    E[k].rule.probability
                                        + DeltaSum(E, rules[i].name, Len(E))

\* a gene that modified a rule has been removed and the rule is displayed
\* with the probability it was added with
C23_Witness ==
    /\ last.op = "remove"
    /\ last.ok
    /\ last.gene = "Booster"
    /\ blueprint_view.error = ""
    /\ \E i \in DOMAIN blueprint_view.transition_rules :
           /\ blueprint_view.transition_rules[i].name = "Uncoat"
           /\ blueprint_view.transition_rules[i].probability = 90

\* C27: every deck card of a gene that is not installed shows the result of
\* can_install_gene in the current state, after every install and remove;
\* no card shows available for a gene that can_install_gene rejects.
C27_DeckAvailability ==
    /\ DOMAIN deck_cards = Range(deck)
    /\ \A g \in DOMAIN deck_cards :
           /\ deck_cards[g].is_installed <=> g \in InstalledSet
           /\ g \notin InstalledSet
                  => (deck_cards[g].is_available <=> can_install_gene(g)[1])

\* after a successful remove, the card of a gene that is not installed shows
\* unavailable because the balance no longer covers its cost
C27_Witness ==
    /\ last.op = "remove"
    /\ last.ok
    /\ \E g \in DOMAIN deck_cards :
           /\ g \notin InstalledSet
           /\ ~deck_cards[g].is_available
           /\ can_install_gene(g)[2] = "insufficient_ep"

\* C28: the remove button of the installed panel is enabled exactly when a
\* gene is selected and that gene is one of the cards on display; the cards
\* are the installed genes, so the selected gene is installed; and a
\* successful install or remove leaves no gene selected.
C28_RemoveButton ==
    /\ [](/\ installed_panel.remove_btn
               <=> /\ installed_panel.selected_gene # NoGene
                   /\ installed_panel.selected_gene
                          \in Range(installed_panel.cards)
          /\ installed_panel.cards = installed_genes
          /\ installed_panel.selected_gene # NoGene
                 => installed_panel.selected_gene \in InstalledSet)
    /\ [][(installed_genes' # installed_genes)
              => /\ installed_panel'.selected_gene = NoGene
                 /\ ~installed_panel'.remove_btn]_vars

\* a card has been selected again after the selected gene was removed
C28_Witness ==
    /\ last.op = "remove"
    /\ last.ok
    /\ installed_panel.remove_btn
    /\ installed_panel.selected_gene \in InstalledSet
    /\ installed_panel.selected_gene # last.gene

\* C30: every installed gene is a gene of the deck.
C30_InstalledFromDeck ==
    InstalledSet \subseteq Range(deck)

\* a click on a deck card has installed a gene, and a deck gene that the new
\* game installed is no longer installed
C30_Witness ==
    /\ last.op = "install"
    /\ last.ok
    /\ last.gene \in Range(deck)
    /\ \E g \in Range(deck) : g \notin InstalledSet

\* C29: handling one selection in the starter combo calls
\* set_starter_entity exactly once; the refresh of the combo that the call
\* brings about lets no currentTextChanged out.
C29_Original ==
    last.op = "set_starter"
        => /\ set_starter_calls = 1
           /\ starter_combo.currentText = selected_starter_entity

====
